---- MODULE Spec2Model ----
(***************************************************************************)
(* A model of the ric-rac-roe game engine (src/src/lib.rs, mod game) and   *)
(* of the callers of its public methods.                                   *)
(*                                                                         *)
(* The Game struct is the four variables board, turn_history, player_turn  *)
(* and result.  Every method is an operator from the struct (a record) to  *)
(* the struct after the call and the value returned; one action per public *)
(* method applies it to the variables.  call and ret record the last call  *)
(* and what it returned; accepted and plays are the caller's own log of    *)
(* the submissions that returned Ok.  pc is the place of fn play          *)
(* (src/src/bin.rs) in its loop.                                           *)
(***************************************************************************)
EXTENDS Naturals, Sequences, FiniteSets

VARIABLES board, turn_history, player_turn, result, call, ret, accepted, plays,
          pc

vars ==
    <<board, turn_history, player_turn, result, call, ret, accepted, plays, pc>>

----------------------------------------------------------------------------
(* Values *)

\* Option<T>
None == [kind |-> "None"]
Some(v) == [kind |-> "Some", val |-> v]

\* Result<T, E>
Ok(v) == [tag |-> "Ok", val |-> v]
Err(e) == [tag |-> "Err", err |-> e]

\* enum TileValue { X, O }
X == "X"
O == "O"
TileValue == {X, O}

\* enum GameResult { Winner(TileValue), Tie }
Winner(m) == [kind |-> "Winner", mark |-> m]
Tie == [kind |-> "Tie"]
GameResult == {Winner(m) : m \in TileValue} \cup {Tie}

\* enum TurnError { TileFull(TileValue), GameOver(GameResult) }
TileFull(m) == [kind |-> "TileFull", mark |-> m]
GameOver(r) == [kind |-> "GameOver", result |-> r]

\* struct Coords(u8, u8): the values Coords::build lets through
Coords(row, col) == <<row, col>>
AllCoords == {Coords(row, col) : row \in 0..2, col \in 0..2}

\* enum CoordsBuildError { OutOfBounds }
OutOfBounds == [kind |-> "OutOfBounds"]

\* u8
U8 == 0..255

\* Coords::build with the inclusive range 0..=3 for its bounds
build_inclusive(row, col) ==
    LET bounds == {x \in U8 : 0 <= x /\ x <= 3}
    IN  IF ~(row \in bounds /\ col \in bounds)
        THEN Err(OutOfBounds)
        ELSE Ok(Coords(row, col))

\* Coords::build
build(row, col) ==
    LET bounds == {x \in U8 : 0 <= x /\ x < 3}
    IN  IF ~(row \in bounds /\ col \in bounds)
        THEN Err(OutOfBounds)
        ELSE Ok(Coords(row, col))

\* struct Turn { value, coords }
Turn(value, coords) == [value |-> value, coords |-> coords]

\* toggle with its second arm mistyped (O => O)
toggle_stuck(self) == IF self = X THEN O ELSE O

\* TileValue::toggle
toggle(self) == IF self = X THEN O ELSE X

----------------------------------------------------------------------------
(* Board *)

\* Board::new
BoardNew == [row \in 0..2 |-> [col \in 0..2 |-> None]]

\* Board::value_at_coords
value_at_coords(b, coords) == b[coords[1]][coords[2]]

\* Board::set_tile
set_tile(b, coords, value) == [b EXCEPT ![coords[1]][coords[2]] = value]

----------------------------------------------------------------------------
(* Game *)

\* Game::new
GameNew ==
    [board |-> BoardNew,
     turn_history |-> <<>>,
     player_turn |-> X,
     result |-> None]

\* Game::WIN_LINES
WIN_LINES ==
    << <<Coords(0, 0), Coords(0, 1), Coords(0, 2)>>,
       <<Coords(1, 0), Coords(1, 1), Coords(1, 2)>>,
       <<Coords(2, 0), Coords(2, 1), Coords(2, 2)>>,
       <<Coords(0, 0), Coords(1, 0), Coords(2, 0)>>,
       <<Coords(0, 1), Coords(1, 1), Coords(2, 1)>>,
       <<Coords(0, 2), Coords(1, 2), Coords(2, 2)>>,
       <<Coords(0, 0), Coords(1, 1), Coords(2, 2)>>,
       <<Coords(0, 2), Coords(1, 1), Coords(2, 0)>> >>

\* The loop body with any in place of all in the test for X
line_winner_any(self, line) ==
    LET tile_line == [k \in 1..3 |-> value_at_coords(self.board, line[k])]
    IN  IF \E k \in 1..3 : tile_line[k] = None
        THEN None
        ELSE LET line_values == [k \in 1..3 |-> tile_line[k].val]
             IN  IF \/ \E k \in 1..3 : line_values[k] = X
                    \/ \A k \in 1..3 : line_values[k] = O
                 THEN Some(Winner(line_values[1]))
                 ELSE None

\* The body of check_end's loop for one line: the winner it returns, or None
\* when the loop goes on to the next line.
line_winner(self, line) ==
    LET tile_line == [k \in 1..3 |-> value_at_coords(self.board, line[k])]
    IN  IF \E k \in 1..3 : tile_line[k] = None
        THEN None
        ELSE LET line_values == [k \in 1..3 |-> tile_line[k].val]
             IN  IF \/ \A k \in 1..3 : line_values[k] = X
                    \/ \A k \in 1..3 : line_values[k] = O
                 THEN Some(Winner(line_values[1]))
                 ELSE None

\* check_end with the full-board test moved in front of the scan of the lines
check_end_tie_first(self) ==
    IF self.result # None
    THEN self.result
    ELSE IF \A row \in 0..2 : \A col \in 0..2 : self.board[row][col] # None
         THEN Some(Tie)
         ELSE LET scan[i \in 1..(Len(WIN_LINES) + 1)] ==
                      IF i > Len(WIN_LINES)
                      THEN None
                      ELSE IF line_winner(self, WIN_LINES[i]) # None
                           THEN line_winner(self, WIN_LINES[i])
                           ELSE scan[i + 1]
              IN  scan[1]

\* check_end whose short circuit returns None instead of the cached result
check_end_forgets(self) ==
    IF self.result # None
    THEN None
    ELSE LET scan[i \in 1..(Len(WIN_LINES) + 1)] ==
                 IF i > Len(WIN_LINES)
                 THEN None
                 ELSE IF line_winner(self, WIN_LINES[i]) # None
                      THEN line_winner(self, WIN_LINES[i])
                      ELSE scan[i + 1]
         IN  IF scan[1] # None
             THEN scan[1]
             ELSE IF \A row \in 0..2 : \A col \in 0..2 :
                         self.board[row][col] # None
                  THEN Some(Tie)
                  ELSE None

\* check_end without the test of the full board
check_end_no_tie(self) ==
    IF self.result # None
    THEN self.result
    ELSE LET scan[i \in 1..(Len(WIN_LINES) + 1)] ==
                 IF i > Len(WIN_LINES)
                 THEN None
                 ELSE IF line_winner(self, WIN_LINES[i]) # None
                      THEN line_winner(self, WIN_LINES[i])
                      ELSE scan[i + 1]
         IN  scan[1]

\* Game::check_end
check_end(self) ==
    IF self.result # None
    THEN self.result
    ELSE LET scan[i \in 1..(Len(WIN_LINES) + 1)] ==
                 IF i > Len(WIN_LINES)
                 THEN None
                 ELSE IF line_winner(self, WIN_LINES[i]) # None
                      THEN line_winner(self, WIN_LINES[i])
                      ELSE scan[i + 1]
         IN  IF scan[1] # None
             THEN scan[1]
             ELSE IF \A row \in 0..2 : \A col \in 0..2 :
                         self.board[row][col] # None
                  THEN Some(Tie)
                  ELSE None

\* Game::check_and_update_result
check_and_update_result(self) ==
    LET r == check_end(self)
    IN  [self |-> [self EXCEPT !.result = r], ret |-> r]

\* take_turn without the test of the cached result
take_turn_no_game_over(self, turn) ==
    LET val_ref == value_at_coords(self.board, turn.coords)
    IN  IF val_ref # None
        THEN [self |-> self, ret |-> Err(TileFull(val_ref.val))]
        ELSE LET placed == [self EXCEPT
                              !.board = set_tile(@, turn.coords, Some(turn.value))]
                 pushed == [placed EXCEPT !.turn_history = Append(@, turn)]
                 updated == check_and_update_result(pushed)
             IN  [self |-> updated.self, ret |-> Ok(updated.ret)]

\* take_turn whose TileFull names the submitted mark, not the one on the tile
take_turn_full_names_submitted(self, turn) ==
    IF self.result # None
    THEN [self |-> self, ret |-> Err(GameOver(self.result.val))]
    ELSE LET val_ref == value_at_coords(self.board, turn.coords)
         IN  IF val_ref # None
             THEN [self |-> self, ret |-> Err(TileFull(turn.value))]
             ELSE LET placed == [self EXCEPT
                                   !.board = set_tile(@, turn.coords, Some(turn.value))]
                      pushed == [placed EXCEPT
                                   !.turn_history = Append(@, turn)]
                      updated == check_and_update_result(pushed)
                  IN  [self |-> updated.self, ret |-> Ok(updated.ret)]

\* take_turn that returns the result cached before the move
take_turn_stale_result(self, turn) ==
    IF self.result # None
    THEN [self |-> self, ret |-> Err(GameOver(self.result.val))]
    ELSE LET val_ref == value_at_coords(self.board, turn.coords)
         IN  IF val_ref # None
             THEN [self |-> self, ret |-> Err(TileFull(val_ref.val))]
             ELSE LET placed == [self EXCEPT
                                   !.board = set_tile(@, turn.coords, Some(turn.value))]
                      pushed == [placed EXCEPT
                                   !.turn_history = Append(@, turn)]
                      updated == check_and_update_result(pushed)
                  IN  [self |-> updated.self, ret |-> Ok(self.result)]

\* take_turn that pushes the turn before it looks at the tile
take_turn_push_first(self, turn) ==
    IF self.result # None
    THEN [self |-> self, ret |-> Err(GameOver(self.result.val))]
    ELSE LET val_ref == value_at_coords(self.board, turn.coords)
             pushed == [self EXCEPT !.turn_history = Append(@, turn)]
         IN  IF val_ref # None
             THEN [self |-> pushed, ret |-> Err(TileFull(val_ref.val))]
             ELSE LET placed == [pushed EXCEPT
                                   !.board = set_tile(@, turn.coords, Some(turn.value))]
                      updated == check_and_update_result(placed)
                  IN  [self |-> updated.self, ret |-> Ok(updated.ret)]

\* take_turn that turns away a mark submitted out of turn
take_turn_checks_turn(self, turn) ==
    IF self.result # None
    THEN [self |-> self, ret |-> Err(GameOver(self.result.val))]
    ELSE LET val_ref == value_at_coords(self.board, turn.coords)
         IN  IF val_ref # None
             THEN [self |-> self, ret |-> Err(TileFull(val_ref.val))]
             ELSE IF turn.value # self.player_turn
                  THEN [self |-> self, ret |-> Err(TileFull(self.player_turn))]
                  ELSE LET placed == [self EXCEPT
                                        !.board = set_tile(@, turn.coords, Some(turn.value))]
                           pushed == [placed EXCEPT
                                        !.turn_history = Append(@, turn)]
                           updated == check_and_update_result(pushed)
                       IN  [self |-> updated.self, ret |-> Ok(updated.ret)]

\* take_turn that returns check_end() and does not cache it
take_turn_no_update(self, turn) ==
    IF self.result # None
    THEN [self |-> self, ret |-> Err(GameOver(self.result.val))]
    ELSE LET val_ref == value_at_coords(self.board, turn.coords)
         IN  IF val_ref # None
             THEN [self |-> self, ret |-> Err(TileFull(val_ref.val))]
             ELSE LET placed == [self EXCEPT
                                   !.board = set_tile(@, turn.coords, Some(turn.value))]
                      pushed == [placed EXCEPT
                                   !.turn_history = Append(@, turn)]
                  IN  [self |-> pushed, ret |-> Ok(check_end(pushed))]

\* take_turn without the test of the tile
take_turn_overwrites(self, turn) ==
    IF self.result # None
    THEN [self |-> self, ret |-> Err(GameOver(self.result.val))]
    ELSE LET placed == [self EXCEPT
                          !.board = set_tile(@, turn.coords, Some(turn.value))]
             pushed == [placed EXCEPT !.turn_history = Append(@, turn)]
             updated == check_and_update_result(pushed)
         IN  [self |-> updated.self, ret |-> Ok(updated.ret)]

\* Game::take_turn
take_turn(self, turn) ==
    IF self.result # None
    THEN [self |-> self, ret |-> Err(GameOver(self.result.val))]
    ELSE LET val_ref == value_at_coords(self.board, turn.coords)
         IN  IF val_ref # None
             THEN [self |-> self, ret |-> Err(TileFull(val_ref.val))]
             ELSE LET placed == [self EXCEPT
                                   !.board = set_tile(@, turn.coords, Some(turn.value))]
                      pushed == [placed EXCEPT
                                   !.turn_history = Append(@, turn)]
                      updated == check_and_update_result(pushed)
                  IN  [self |-> updated.self, ret |-> Ok(updated.ret)]

\* play_coords that toggles before it looks at what take_turn returned
play_coords_toggle_always(self, coords) ==
    LET taken == take_turn(self, Turn(self.player_turn, coords))
        toggled == [taken.self EXCEPT !.player_turn = toggle(@)]
    IN  IF taken.ret.tag = "Err"
        THEN [self |-> toggled, ret |-> taken.ret]
        ELSE [self |-> toggled, ret |-> Ok(taken.ret.val)]

\* play_coords that leaves the turn alone when the move ended the game
play_coords_no_toggle_at_end(self, coords) ==
    LET taken == take_turn(self, Turn(self.player_turn, coords))
    IN  IF taken.ret.tag = "Err"
        THEN taken
        ELSE IF taken.ret.val # None
             THEN [self |-> taken.self, ret |-> Ok(taken.ret.val)]
             ELSE [self |-> [taken.self EXCEPT !.player_turn = toggle(@)],
                   ret |-> Ok(taken.ret.val)]

\* Game::play_coords
play_coords(self, coords) ==
    LET taken == take_turn(self, Turn(self.player_turn, coords))
    IN  IF taken.ret.tag = "Err"
        THEN taken
        ELSE [self |-> [taken.self EXCEPT !.player_turn = toggle(@)],
              ret |-> Ok(taken.ret.val)]

----------------------------------------------------------------------------
(* The engine as a state machine *)

\* The Game struct held in the variables
Self ==
    [board |-> board,
     turn_history |-> turn_history,
     player_turn |-> player_turn,
     result |-> result]

\* let mut g = Game::new()
Init ==
    /\ board = GameNew.board
    /\ turn_history = GameNew.turn_history
    /\ player_turn = GameNew.player_turn
    /\ result = GameNew.result
    /\ call = [op |-> "new", args |-> <<>>]
    /\ ret = None
    /\ accepted = <<>>
    /\ plays = 0
    /\ pc = "loop"

\* The variables after a method returned out
Returned(out) ==
    /\ board' = out.self.board
    /\ turn_history' = out.self.turn_history
    /\ player_turn' = out.self.player_turn
    /\ result' = out.self.result
    /\ ret' = out.ret

\* The third doctest of check_end: nine moves that end in a tie
TieGame ==
    <<Coords(1, 1), Coords(0, 2), Coords(2, 2), Coords(0, 0), Coords(0, 1),
      Coords(2, 1), Coords(1, 0), Coords(1, 2), Coords(2, 0)>>

\* The number of trailing moves of a game the caller chooses freely
FreeMoves == 4
PlayFreeMoves == 6
LiveFreeMoves == 4

\* While fewer than 9 - free moves are on the board the caller follows TieGame
\* through play_coords; from then on it submits anything.
InOpening(free) == result = None /\ Len(turn_history) + free < Len(TieGame)

Choices(free) ==
    IF InOpening(free) THEN {TieGame[Len(turn_history) + 1]} ELSE AllCoords

\* g.take_turn(Turn::new(value, coords))
TakeTurn(free, value, coords) ==
    /\ ~InOpening(free)
    /\ \E out \in {take_turn(Self, Turn(value, coords))} :
           /\ Returned(out)
           /\ call' = [op |-> "take_turn", args |-> <<value, coords>>]
           /\ accepted' = IF out.ret.tag = "Ok"
                          THEN Append(accepted, <<value, coords>>)
                          ELSE accepted
           /\ plays' = plays
           /\ pc' = pc

\* g.play_coords(coords)
PlayCoords(free, coords) ==
    /\ coords \in Choices(free)
    /\ \E out \in {play_coords(Self, coords)} :
           /\ Returned(out)
           /\ call' = [op |-> "play_coords", args |-> <<coords>>]
           /\ accepted' = IF out.ret.tag = "Ok"
                          THEN Append(accepted, <<player_turn, coords>>)
                          ELSE accepted
           /\ plays' = IF out.ret.tag = "Ok" THEN plays + 1 ELSE plays
           /\ pc' = pc

\* check_end that drops the cached result to scan the board again
CheckEnd_rescans ==
    /\ Returned([self |-> [Self EXCEPT !.result = None], ret |-> check_end(Self)])
    /\ call' = [op |-> "check_end", args |-> <<>>]
    /\ UNCHANGED <<accepted, plays, pc>>

\* g.check_end()
CheckEnd ==
    /\ Returned([self |-> Self, ret |-> check_end(Self)])
    /\ call' = [op |-> "check_end", args |-> <<>>]
    /\ UNCHANGED <<accepted, plays, pc>>

\* g.check_and_update_result()
CheckAndUpdateResult ==
    /\ Returned(check_and_update_result(Self))
    /\ call' = [op |-> "check_and_update_result", args |-> <<>>]
    /\ UNCHANGED <<accepted, plays, pc>>

\* Any caller of the public methods
Next ==
    \/ \E value \in TileValue, coords \in AllCoords :
           TakeTurn(FreeMoves, value, coords)
    \/ \E coords \in AllCoords : PlayCoords(FreeMoves, coords)
    \/ CheckEnd
    \/ CheckAndUpdateResult

Spec == Init /\ [][Next]_vars

\* A caller that submits moves through play_coords only
NextPlay ==
    \/ \E coords \in AllCoords : PlayCoords(PlayFreeMoves, coords)
    \/ CheckEnd
    \/ CheckAndUpdateResult

SpecPlay == Init /\ [][NextPlay]_vars

\* prompt_move: what it can return, any row and column in 0..=2
prompt_move == AllCoords

\* One turn of play's loop in which the Winner arm goes on instead of breaking
play_continues_on_winner(free, coords) ==
    /\ pc = "loop"
    /\ coords \in prompt_move \cap Choices(free)
    /\ \E out \in {play_coords(Self, coords)} :
           /\ Returned(out)
           /\ call' = [op |-> "play_coords", args |-> <<coords>>]
           /\ accepted' = IF out.ret.tag = "Ok"
                          THEN Append(accepted, <<player_turn, coords>>)
                          ELSE accepted
           /\ plays' = IF out.ret.tag = "Ok" THEN plays + 1 ELSE plays
           /\ pc' = IF out.ret = Ok(None) THEN "loop"
                    ELSE IF out.ret = Ok(Some(Tie)) THEN "tie"
                    ELSE IF out.ret.tag = "Ok" THEN "loop"
                    ELSE IF out.ret.err.kind = "GameOver" THEN "game_over"
                    ELSE "loop"

\* One turn of the loop of fn play: g.play_coords(prompt_move(&g)) and the
\* match on what it returned.  pc is "loop" while the loop runs and names the
\* arm that broke out of it afterwards.
play(free, coords) ==
    /\ pc = "loop"
    /\ coords \in prompt_move \cap Choices(free)
    /\ \E out \in {play_coords(Self, coords)} :
           /\ Returned(out)
           /\ call' = [op |-> "play_coords", args |-> <<coords>>]
           /\ accepted' = IF out.ret.tag = "Ok"
                          THEN Append(accepted, <<player_turn, coords>>)
                          ELSE accepted
           /\ plays' = IF out.ret.tag = "Ok" THEN plays + 1 ELSE plays
           /\ pc' = IF out.ret = Ok(None) THEN "loop"
                    ELSE IF out.ret = Ok(Some(Tie)) THEN "tie"
                    ELSE IF out.ret.tag = "Ok" THEN "winner"
                    ELSE IF out.ret.err.kind = "GameOver" THEN "game_over"
                    ELSE "loop"

\* fn play, from let mut g = Game::new()
NextDriver == \E coords \in AllCoords : play(PlayFreeMoves, coords)

SpecDriver == Init /\ [][NextDriver]_vars

\* Coords::build(row, col), for any two u8
Build(row, col) ==
    /\ call' = [op |-> "build", args |-> <<row, col>>]
    /\ ret' = build(row, col)
    /\ UNCHANGED <<board, turn_history, player_turn, result, accepted, plays, pc>>

\* value.toggle()
Toggle(value) ==
    /\ call' = [op |-> "toggle", args |-> <<value>>]
    /\ ret' = toggle(value)
    /\ UNCHANGED <<board, turn_history, player_turn, result, accepted, plays, pc>>

\* value.toggle().toggle()
ToggleTwice(value) ==
    /\ call' = [op |-> "toggle.toggle", args |-> <<value>>]
    /\ ret' = toggle(toggle(value))
    /\ UNCHANGED <<board, turn_history, player_turn, result, accepted, plays, pc>>

\* One call of a function of the module that takes no Game
NextPure ==
    /\ call.op = "new"
    /\ \/ \E row \in U8, col \in U8 : Build(row, col)
       \/ \E value \in TileValue : Toggle(value)
       \/ \E value \in TileValue : ToggleTwice(value)

SpecPure == Init /\ [][NextPure]_vars

\* fn play, with the smaller number of free moves the check of liveness uses
NextDriverLive == \E coords \in AllCoords : play(LiveFreeMoves, coords)

\* A turn of the loop in which the player names an empty tile
PlayEmpty ==
    \E coords \in AllCoords :
        value_at_coords(board, coords) = None /\ play(LiveFreeMoves, coords)

\* fn play with a player who, while the loop runs, does not answer with
\* occupied tiles for ever
SpecDriverFair == Init /\ [][NextDriverLive]_vars /\ WF_vars(PlayEmpty)

\* check_end as a function of the board: a game with no cached result whose
\* board holds any of the 3^9 contents
InitEnd ==
    /\ board \in [0..2 -> [0..2 -> {None} \cup {Some(m) : m \in TileValue}]]
    /\ turn_history = <<>>
    /\ player_turn = X
    /\ result = None
    /\ call = [op |-> "new", args |-> <<>>]
    /\ ret = None
    /\ accepted = <<>>
    /\ plays = 0
    /\ pc = "loop"

NextEnd == CheckEnd

SpecEnd == InitEnd /\ [][NextEnd]_vars

----------------------------------------------------------------------------
(* What the claims speak of *)

\* The last call submitted a move, and the coordinate it submitted
IsSubmit(cl) == cl.op \in {"take_turn", "play_coords"}
SubCoords(cl) == IF cl.op = "take_turn" THEN cl.args[2] ELSE cl.args[1]

\* The eight lines by their geometry: rows 0..2, columns 0..2, the diagonal,
\* the anti-diagonal
RuleLines ==
    [i \in 1..8 |->
        IF i <= 3 THEN {<<i - 1, k>> : k \in 0..2}
        ELSE IF i <= 6 THEN {<<k, i - 4>> : k \in 0..2}
        ELSE IF i = 7 THEN {<<k, k>> : k \in 0..2}
        ELSE {<<k, 2 - k>> : k \in 0..2}]

RuleMatched(b, i, m) == \A c \in RuleLines[i] : b[c[1]][c[2]] = Some(m)

RuleFull(b) == \A c \in AllCoords : b[c[1]][c[2]] # None

\* The reference rule of the end state
RuleEnd(b) ==
    LET hit == {i \in 1..8 : \E m \in TileValue : RuleMatched(b, i, m)}
    IN  IF hit # {}
        THEN LET first == CHOOSE i \in hit : \A j \in hit : i <= j
             IN  Some(Winner(CHOOSE m \in TileValue : RuleMatched(b, first, m)))
        ELSE IF RuleFull(b) THEN Some(Tie) ELSE None

\* The lines of the board b whose three tiles hold one mark
MatchedLines(b) == {i \in 1..8 : \E m \in TileValue : RuleMatched(b, i, m)}

IsPrefix(s, t) == Len(s) <= Len(t) /\ \A i \in 1..Len(s) : s[i] = t[i]

CountMark(b, m) == Cardinality({c \in AllCoords : b[c[1]][c[2]] = Some(m)})

----------------------------------------------------------------------------
(* Claims *)

\* C1: once a result is cached, every take_turn or play_coords, for any mark
\* and any coordinate, returns Err(GameOver(r)) with the cached r and leaves
\* the board, the history, the current turn and the cached result unchanged.
C1_GameOverRejects ==
    [][(result # None /\ IsSubmit(call'))
          => /\ ret' = Err(GameOver(result.val))
             /\ UNCHANGED <<board, turn_history, player_turn, result>>]_vars

\* C1 witness: a move to an empty tile was rejected with GameOver(Winner(X))
C1_Witness ==
    /\ IsSubmit(call)
    /\ ret = Err(GameOver(Winner(X)))
    /\ result = Some(Winner(X))
    /\ value_at_coords(board, SubCoords(call)) = None

C3_TakeTurnSucceeds ==
    [][(call'.op = "take_turn" /\ result = None
            /\ value_at_coords(board, call'.args[2]) = None)
          => /\ value_at_coords(board', call'.args[2]) = Some(call'.args[1])
             /\ \A c \in AllCoords \ {call'.args[2]} :
                    value_at_coords(board', c) = value_at_coords(board, c)
             /\ turn_history' =
                    Append(turn_history, Turn(call'.args[1], call'.args[2]))
             /\ result' = RuleEnd(board')
             /\ ret' = Ok(result')]_vars

\* C3 witness: a take_turn filled the last tile and returned Ok(Some(Tie))
C3_Witness ==
    /\ call.op = "take_turn"
    /\ ret = Ok(Some(Tie))
    /\ result = Some(Tie)
    /\ Len(turn_history) = 9

\* C4: play_coords(coord) submits player_turn as the mark; an accepted move
\* toggles the turn once (also when it ends the game), a rejected one leaves
\* the turn as it was.
C4_PlayCoordsTurn ==
    [][call'.op = "play_coords"
          => /\ ret'.tag = "Ok"
                  <=> (result = None /\ value_at_coords(board, call'.args[1]) = None)
             /\ ret'.tag = "Ok"
                  => /\ value_at_coords(board', call'.args[1]) = Some(player_turn)
                     /\ turn_history' =
                            Append(turn_history, Turn(player_turn, call'.args[1]))
                     /\ player_turn' \in TileValue \ {player_turn}
             /\ ret'.tag = "Err"
                  => /\ player_turn' = player_turn
                     /\ ret'.err.kind \in {"TileFull", "GameOver"}]_vars

\* C4 witness: a play_coords of X won the game and the turn went to O
C4_Witness ==
    /\ call.op = "play_coords"
    /\ ret = Ok(Some(Winner(X)))
    /\ value_at_coords(board, call.args[1]) = Some(X)
    /\ player_turn = O

\* C5: with no cached result check_end returns Winner(m) for the first line,
\* in row, row, row, column, column, column, diagonal, anti-diagonal order,
\* whose three tiles all hold m; otherwise Tie when all nine tiles are
\* occupied; otherwise None, for every one of the 3^9 boards.
C5_CheckEndRule ==
    (call.op = "check_end" /\ result = None) => ret = RuleEnd(board)

\* C5 witness: on a full board whose row 1 is X and whose row 2 is O,
\* check_end returned Winner(X), not Tie and not Winner(O)
C5_Witness ==
    /\ call.op = "check_end"
    /\ result = None
    /\ RuleFull(board)
    /\ RuleMatched(board, 2, X)
    /\ RuleMatched(board, 3, O)
    /\ ~ \E m \in TileValue : RuleMatched(board, 1, m)
    /\ ret = Some(Winner(X))

\* C6: once result is Some(r) it is Some(r) in every later state, whatever
\* is called, and check_end returns that r.
C6_ResultSticky ==
    [][result # None
          => /\ result' = result
             /\ call'.op = "check_end" => ret' = result]_vars

\* C6 witness: check_and_update_result ran on a finished game and the cached
\* result is still the tie
C6_Witness ==
    /\ call.op = "check_and_update_result"
    /\ result = Some(Tie)
    /\ ret = Some(Tie)
    /\ Len(accepted) = 9

\* C7: the history is the accepted (mark, coord) pairs in call order, its
\* length the number of accepted submissions; a rejected submission adds
\* nothing and every earlier history is a prefix of every later one.
C7_HistoryRoundTrip ==
    /\ [](/\ Len(turn_history) = Len(accepted)
          /\ \A i \in 1..Len(accepted) :
                 turn_history[i] = Turn(accepted[i][1], accepted[i][2]))
    /\ [][/\ IsPrefix(turn_history, turn_history')
          /\ (IsSubmit(call') /\ ret'.tag = "Err") => turn_history' = turn_history]_vars

\* C7 witness: a submission was rejected with TileFull after seven were accepted
C7_Witness ==
    /\ IsSubmit(call)
    /\ ret.tag = "Err"
    /\ ret.err.kind = "TileFull"
    /\ Len(accepted) = 7
    /\ Len(turn_history) = 7

\* C8 as stated: after N accepted moves, however submitted, player_turn is X
\* when N is even and O when N is odd.
C8_Original ==
    (player_turn = X) <=> (Len(accepted) % 2 = 0)

\* C8 as amended: player_turn starts at X and is X exactly when the number of
\* moves accepted through play_coords is even; a move accepted through
\* take_turn does not change it.
C8_TurnParity ==
    (player_turn = X) <=> (plays % 2 = 0)

\* C8 witness: eight moves accepted, seven of them through play_coords
C8_Witness ==
    /\ Len(accepted) = 8
    /\ plays = 7
    /\ player_turn = O

\* C9: when moves are submitted through play_coords only, history entry i
\* (0-based) holds X for even i and O for odd i, the number of X tiles minus
\* the number of O tiles is 0 or 1, and it is 0 exactly when the turn is X.
C9_PlayAlternates ==
    /\ \A i \in 1..Len(turn_history) :
           turn_history[i].value = (IF i % 2 = 1 THEN X ELSE O)
    /\ \/ CountMark(board, X) = CountMark(board, O)
       \/ CountMark(board, X) = CountMark(board, O) + 1
    /\ (CountMark(board, X) = CountMark(board, O)) <=> (player_turn = X)

\* C9 witness: a full board of five X and four O, the turn at O
C9_Witness ==
    /\ Len(turn_history) = 9
    /\ CountMark(board, X) = 5
    /\ CountMark(board, O) = 4
    /\ player_turn = O

\* C10: take_turn accepts exactly when no result is cached and the target
\* tile is empty, whatever the mark and whatever player_turn, and it never
\* changes player_turn.
C10_TakeTurnIgnoresTurn ==
    [][call'.op = "take_turn"
          => /\ player_turn' = player_turn
             /\ ret'.tag = "Ok"
                  <=> (result = None /\ value_at_coords(board, call'.args[2]) = None)]_vars

\* C10 witness: take_turn accepted the mark of the move before it, which is
\* not the mark whose turn it is
C10_Witness ==
    /\ call.op = "take_turn"
    /\ ret.tag = "Ok"
    /\ Len(turn_history) >= 2
    /\ turn_history[Len(turn_history)].value = turn_history[Len(turn_history) - 1].value
    /\ call.args[1] # player_turn

C12_DriverStops ==
    /\ [](pc # "game_over")
    /\ [](result # None => pc \in {"tie", "winner"})
    /\ [][call'.op = "play_coords"
            => /\ pc = "loop"
               /\ result = None
               /\ (ret'.tag = "Ok" /\ ret'.val # None) => pc' \in {"tie", "winner"}
               /\ (ret'.tag = "Err" /\ ret'.err.kind = "TileFull")
                    => (pc' = "loop" /\ player_turn' = player_turn)]_vars

\* C12 witness: the loop broke out through its Winner arm when O won
C12_Witness ==
    /\ pc = "winner"
    /\ call.op = "play_coords"
    /\ ret = Ok(Some(Winner(O)))

\* C13: Coords::build(row, col) succeeds exactly when row and col are both in
\* 0..2 and returns Err(OutOfBounds) for every other pair of u8.
C13_BuildBounds ==
    call.op = "build"
        => IF call.args[1] \in 0..2 /\ call.args[2] \in 0..2
           THEN ret = Ok(<<call.args[1], call.args[2]>>)
           ELSE ret = Err(OutOfBounds)

\* C13 witness: build(2, 3), the row in bounds and the column just out of
\* them, returned OutOfBounds
C13_Witness ==
    /\ call.op = "build"
    /\ call.args = <<2, 3>>
    /\ ret = Err(OutOfBounds)

\* C14: toggle swaps the two marks, toggle(X) = O and toggle(O) = X, and
\* toggling twice gives the mark back.
C14_ToggleInvolution ==
    /\ call.op = "toggle"
         => /\ call.args[1] = X => ret = O
            /\ call.args[1] = O => ret = X
    /\ call.op = "toggle.toggle" => ret = call.args[1]

\* C14 witness: O toggled twice is O
C14_Witness ==
    /\ call.op = "toggle.toggle"
    /\ call.args = <<O>>
    /\ ret = O

\* C15 as stated: in a game played through play_coords from a fresh engine no
\* reachable state has two or more of the eight lines fully matched.
C15_Original ==
    Cardinality(MatchedLines(board)) <= 1

\* C15 as amended: in a game played through play_coords from a fresh engine
\* at most two lines are ever fully matched; every matched line holds the mark
\* of the last move and contains the tile of the last move, so that one move
\* completed them all.
C15_LinesOfLastMove ==
    /\ Cardinality(MatchedLines(board)) <= 2
    /\ \A i \in MatchedLines(board) :
           /\ Len(turn_history) > 0
           /\ RuleMatched(board, i, turn_history[Len(turn_history)].value)
           /\ turn_history[Len(turn_history)].coords \in RuleLines[i]

\* C15 witness: the ninth move, X at (0, 0), completed column 0 and the
\* diagonal at once
C15_Witness ==
    /\ Len(turn_history) = 9
    /\ turn_history[9] = Turn(X, Coords(0, 0))
    /\ MatchedLines(board) = {4, 7}

\* C16: in every state reached through take_turn and play_coords all fully
\* matched lines hold the same mark, so whichever matched line a scan of the
\* table meets first, in any order of the table, it computes the same result:
\* the one check_end computes and the one cached.
C16_ScanOrderFree ==
    /\ \A i, j \in MatchedLines(board) : \A m, n \in TileValue :
           (RuleMatched(board, i, m) /\ RuleMatched(board, j, n)) => m = n
    /\ \A i \in MatchedLines(board) : \A m \in TileValue :
           RuleMatched(board, i, m)
               => /\ check_end([Self EXCEPT !.result = None]) = Some(Winner(m))
                  /\ result = Some(Winner(m))

\* C16 witness: a take_turn of X completed two lines at once, row 2 and
\* column 1, the third and the fifth of the table
C16_Witness ==
    /\ call.op = "take_turn"
    /\ MatchedLines(board) = {3, 5}
    /\ result = Some(Winner(X))

\* C17: the cached result agrees with the board in every reachable state: it
\* is None exactly when no line is matched and a tile is empty, Winner(m)
\* exactly when some line holds three m, Tie exactly when the board is full
\* with no line matched; and check_and_update_result changes nothing.
C17_ResultAgrees ==
    /\ [](/\ result = None
                <=> (MatchedLines(board) = {} /\ ~RuleFull(board))
          /\ \A m \in TileValue :
                 result = Some(Winner(m))
                     <=> \E i \in 1..8 : RuleMatched(board, i, m)
          /\ result = Some(Tie)
                <=> (MatchedLines(board) = {} /\ RuleFull(board)))
    /\ [][call'.op = "check_and_update_result"
            => /\ UNCHANGED <<board, turn_history, player_turn, result>>
               /\ ret' = result]_vars

\* C17 witness: check_and_update_result ran with eight moves played and the
\* game still open, and left the result None
C17_Witness ==
    /\ call.op = "check_and_update_result"
    /\ Len(turn_history) = 8
    /\ MatchedLines(board) = {}
    /\ result = None
    /\ ret = None

\* C18: whenever an accepted take_turn or play_coords returns
\* Some(Winner(m)), m is the mark that move placed, a line of three m contains
\* the tile it played, and after play_coords the turn is the other mark.
C18_WinnerMovedLast ==
    (/\ IsSubmit(call)
     /\ ret.tag = "Ok"
     /\ ret.val # None
     /\ ret.val.val.kind = "Winner")
        => LET m == ret.val.val.mark
               last == turn_history[Len(turn_history)]
           IN  /\ last = Turn(m, SubCoords(call))
               /\ value_at_coords(board, SubCoords(call)) = Some(m)
               /\ call.op = "take_turn" => call.args[1] = m
               /\ \E i \in 1..8 :
                      RuleMatched(board, i, m) /\ SubCoords(call) \in RuleLines[i]
               /\ call.op = "play_coords"
                    => (player_turn \in TileValue /\ player_turn # m)

\* C18 witness: take_turn of O returned Winner(O) by column 0 while the turn
\* stayed at O
C18_Witness ==
    /\ call.op = "take_turn"
    /\ call.args[1] = O
    /\ ret = Ok(Some(Winner(O)))
    /\ RuleMatched(board, 4, O)
    /\ player_turn = O

\* C19: in every reachable state the tile at c holds Some(m) exactly when the
\* history contains the move (m, c), no coordinate is twice in the history,
\* the number of occupied tiles is the length of the history, and a tile once
\* set keeps its mark.
C19_BoardIsHistory ==
    /\ [](/\ \A c \in AllCoords : \A m \in TileValue :
                 value_at_coords(board, c) = Some(m)
                     <=> \E i \in 1..Len(turn_history) : turn_history[i] = Turn(m, c)
          /\ \A i, j \in 1..Len(turn_history) :
                 turn_history[i].coords = turn_history[j].coords => i = j
          /\ Cardinality({c \in AllCoords : value_at_coords(board, c) # None})
                = Len(turn_history))
    /\ [][\A c \in AllCoords :
              value_at_coords(board, c) # None
                  => value_at_coords(board', c) = value_at_coords(board, c)]_vars

\* C19 witness: a full board, nine moves in the history, the ninth a win of X
C19_Witness ==
    /\ RuleFull(board)
    /\ Len(turn_history) = 9
    /\ result = Some(Winner(X))

\* C20: the history never holds more than nine moves, after the ninth
\* accepted move the result is set, and when the player keeps naming tiles
\* and does not name occupied ones for ever, a play_coords returns
\* Some(result) and the loop of play ends.
C20_GameEnds ==
    /\ [](Len(turn_history) <= 9)
    /\ [](Len(turn_history) = 9 => result \in {Some(r) : r \in GameResult})
    /\ <>(/\ pc \in {"tie", "winner"}
          /\ result # None
          /\ ret = Ok(result))

\* C20 witness: the loop ended through its Tie arm on the ninth move
C20_Witness ==
    /\ pc = "tie"
    /\ Len(turn_history) = 9
    /\ ret = Ok(Some(Tie))

====
